---- MODULE Spec2Model ----
(***************************************************************************)
(* The query-to-ranking pipeline of dinner/yelp_backend.py: find_dinner    *)
(* and the helpers it calls, as a state machine with one action per step   *)
(* of find_dinner.                                                         *)
(*                                                                         *)
(* Units.  Python floats are modelled as integers on a fixed grid:         *)
(*   ratings          in tenths            (4.5  -> 45)                    *)
(*   distances in km  in hundredths of km  (3.0  -> 300)                   *)
(*   scores           in 1/10000           (8.8  -> 88000)                 *)
(* Strings that are searched or measured are sequences of one-character    *)
(* strings, so that lower(), len(), count() and the `in` substring test    *)
(* are computed, not assumed.  A Python dict is a function whose DOMAIN is *)
(* the set of keys that are present.                                       *)
(***************************************************************************)
EXTENDS Integers, Sequences, FiniteSets, TLC

VARIABLES
    YELP_API_KEY,   \* module constant read from the environment (line 15)
    query,          \* the dict handed to find_dinner
    pc,             \* position inside find_dinner
    q,              \* the merged query (lines 233-239)
    params,         \* the parameters of the search request (lines 142-182)
    response,       \* what the search request came back with
    raw,            \* the list _yelp_search returned (line 241)
    businesses,     \* lines 241, 242, 246
    scored,         \* line 249
    top,            \* line 255
    results,        \* line 256, snippets filled by lines 259-261
    i,              \* loop index of line 259 (0-based, as in the code)
    error,          \* the exception find_dinner terminated with, or "none"
    searchCalls,    \* number of search requests put on the network
    reviewCalls,    \* business ids of the review requests put on the network
    lastOutcome     \* outcome of the latest review request

\* views.py, home: the latest request and the context it was answered with
VARIABLES
    request,        \* the latest request home handled
    history,        \* the chat of the page the request was sent from
    chat,           \* context["chat"]
    chat_json,      \* context["chat_json"], the hidden form field
    restaurants,    \* context["restaurants"]
    home_error,     \* context["error"]
    verify_message, \* context["verify_message"]
    key_status,     \* context["key_status"]
    openai,         \* what the OpenAI call of the request came to
    yelp,           \* what the find_dinner call of the request came to
    requests        \* number of requests handled

fdVars == <<YELP_API_KEY, query, pc, q, params, response, raw, businesses,
            scored, top, results, i, error, searchCalls, reviewCalls,
            lastOutcome>>

homeVars == <<request, history, chat, chat_json, restaurants, home_error,
              verify_message, key_status, openai, yelp, requests>>

vars == <<fdVars, homeVars>>

-----------------------------------------------------------------------------
(* Bounds of the model *)

\* longest raw candidate list built from arbitrary distinct pool candidates
MaxRaw == 3

\* length of the one long raw candidate list (more than a page of 50)
LongRaw == 51

\* number of requests sent to home, one after the other
MaxRequests == 2

(* Program constants *)

\* min(int(query.get("limit", 12)), 50)
MaxPage == 50

\* q.setdefault("limit", 12)
DefaultLimit == 12

\* q.setdefault("min_rating", 4.0), in tenths
DefaultMinRating == 40

\* q.setdefault("distance_km", 3.0), in hundredths of a km
DefaultDistanceKm == 300

\* for i in range(min(5, len(results)))
SnippetCap == 5

-----------------------------------------------------------------------------
(* Python built-ins used by the code *)

EmptyDict == [k \in {} |-> 0]

\* d.get(k, dflt)
Get(d, k, dflt) == IF k \in DOMAIN d THEN d[k] ELSE dflt

\* d.setdefault(k, v) followed by reading d
SetDefault(d, k, v) ==
    IF k \in DOMAIN d THEN d
    ELSE [x \in DOMAIN d \cup {k} |-> IF x = k THEN v ELSE d[x]]

Min(a, b) == IF a <= b THEN a ELSE b
Max(a, b) == IF a >= b THEN a ELSE b
Abs(a) == IF a >= 0 THEN a ELSE 0 - a

UpperCase == <<"A","B","C","D","E","F","G","H","I","J","K","L","M",
               "N","O","P","Q","R","S","T","U","V","W","X","Y","Z">>
LowerCase == <<"a","b","c","d","e","f","g","h","i","j","k","l","m",
               "n","o","p","q","r","s","t","u","v","w","x","y","z">>

LowerChar(c) ==
    IF \E k \in 1..26 : UpperCase[k] = c
    THEN LowerCase[CHOOSE k \in 1..26 : UpperCase[k] = c]
    ELSE c

\* str.lower()
Lower(s) == [k \in 1..Len(s) |-> LowerChar(s[k])]

\* sub in s
Contains(sub, s) ==
    \E k \in 0..(Len(s) - Len(sub)) : SubSeq(s, k + 1, k + Len(sub)) = sub

\* s.count(c) for a one-character c
Count(s, c) == Cardinality({k \in 1..Len(s) : s[k] = c})

\* " ".join(parts)
RECURSIVE JoinSpace(_)
JoinSpace(parts) ==
    IF parts = <<>> THEN <<>>
    ELSE IF Len(parts) = 1 THEN parts[1]
    ELSE parts[1] \o <<" ">> \o JoinSpace(Tail(parts))

\* s[:n]
Prefix(s, n) ==
    IF n >= 0 THEN SubSeq(s, 1, Min(n, Len(s)))
    ELSE SubSeq(s, 1, Max(Len(s) + n, 0))

-----------------------------------------------------------------------------
(* yelp_backend.py helpers *)

\* _require_yelp_key without the check of line 55
_require_yelp_key_NoCheck(key) == [raised |-> "none", value |-> key]

\* _require_yelp_key: an unset or empty key raises RuntimeError
_require_yelp_key(key) ==
    IF key = "" THEN [raised |-> "RuntimeError"]
    ELSE [raised |-> "none", value |-> key]

\* _km: round(meters / 1000.0, 2), in hundredths of a km.  The model draws
\* no distance that ends in 5 metres, where the result depends on the binary
\* representation of the quotient.
_km(meters) == (meters + 5) \div 10

\* _category_names: [c.get("title") for c in (cats or [])]
_category_names(cats) == [k \in 1..Len(cats) |-> cats[k].title]

\* (b.get("name", "") + " " + " ".join(_category_names(...))).lower()
Hay(b) ==
    Lower(Get(b, "name", <<>>) \o <<" ">>
          \o JoinSpace(_category_names(Get(b, "categories", <<>>))))

\* min(2.0, math.log10(1 + reviews) / math.log10(500 + 1) * 2.0), in 1/10000,
\* tabulated for the review counts of the candidate pool:
\*   log10(10) / log10(501) * 2 = 0.74078...
ReviewTerm(reviews) ==
    CASE reviews = 0 -> 0
      [] reviews = 9 -> 7408
      [] reviews >= 500 -> 20000

\* the set of lower-cased keywords: set(k.lower() for k in keywords or [])
KeywordSet(query_) ==
    LET kws == Get(query_, "keywords", <<>>)
    IN  {Lower(kws[k]) : k \in 1..Len(kws)}

\* lines 85-91, in 1/10000: the price alignment term; `price` is truthy
\* when the key is present with a non-empty string
PriceAlign(b, query_) ==
    LET hasPrice == "price" \in DOMAIN b /\ b.price # <<>>
    IN  IF "budget" \in DOMAIN query_ /\ hasPrice
        THEN Max(0, 15000 - 7500 * Abs(Len(b.price) - Len(query_.budget)))
        ELSE 0

\* _score_business, in 1/10000
_score_business(b, query_) ==
    LET rating == Get(b, "rating", 0) * 1000
        reviews == Get(b, "review_count", 0)
        dist_km == _km(Get(b, "distance", 0))
        max_km == Get(query_, "distance_km", DefaultDistanceKm)
        dist_pen == IF dist_km <= max_km THEN 0
                    ELSE 0 - 50 * (dist_km - max_km)
        align == PriceAlign(b, query_)
        matches == Cardinality({k \in KeywordSet(query_) : Contains(k, Hay(b))})
        kw_bonus == 5000 * matches
    IN  rating + ReviewTerm(reviews) + dist_pen + align + kw_bonus

\* _filter_avoid without line 109: the phrases are not lower-cased
_filter_avoid_CaseSensitive(bs, avoid) ==
    IF avoid = <<>> THEN bs
    ELSE LET Hit(b) == \E k \in 1..Len(avoid) : Contains(avoid[k], Hay(b))
         IN  SelectSeq(bs, LAMBDA b : ~Hit(b))

\* _filter_avoid
_filter_avoid(bs, avoid) ==
    IF avoid = <<>> THEN bs
    ELSE LET avoid_l == [k \in 1..Len(avoid) |-> Lower(avoid[k])]
             Hit(b) == \E k \in 1..Len(avoid_l) : Contains(avoid_l[k], Hay(b))
         IN  SelectSeq(bs, LAMBDA b : ~Hit(b))

\* the rating filter letting a candidate without a rating through
FilterRating_MissingPasses(bs, min_rating) ==
    SelectSeq(bs, LAMBDA b : "rating" \notin DOMAIN b \/ b.rating >= min_rating)

\* [b for b in businesses if float(b.get("rating", 0)) >= min_rating]
FilterRating(bs, min_rating) ==
    SelectSeq(bs, LAMBDA b : Get(b, "rating", 0) >= min_rating)

\* _to_restaurant (the fields the ranking and the enrichment use)
_to_restaurant(b) ==
    [id |-> b.id,
     name |-> Get(b, "name", <<>>),
     rating |-> Get(b, "rating", 0),
     review_count |-> Get(b, "review_count", 0),
     categories |-> _category_names(Get(b, "categories", <<>>)),
     distance_km |-> _km(Get(b, "distance", 0)),
     snippet |-> "None"]

\* sorted(businesses, key=lambda b: _score_business(b, q), reverse=True):
\* a stable sort; with reverse=True elements with equal keys keep the order
\* they had in the input.
RECURSIVE InsertDesc(_, _, _)
InsertDesc(sorted_, b, query_) ==
    IF sorted_ = <<>> THEN <<b>>
    ELSE IF _score_business(sorted_[1], query_) >= _score_business(b, query_)
         THEN <<sorted_[1]>> \o InsertDesc(Tail(sorted_), b, query_)
         ELSE <<b>> \o sorted_

RECURSIVE SortFrom(_, _, _)
SortFrom(done, rest, query_) ==
    IF rest = <<>> THEN done
    ELSE SortFrom(InsertDesc(done, rest[1], query_), Tail(rest), query_)

\* the stable ascending sort: sorted(...) without reverse=True
RECURSIVE InsertAsc(_, _, _)
InsertAsc(sorted_, b, query_) ==
    IF sorted_ = <<>> THEN <<b>>
    ELSE IF _score_business(sorted_[1], query_) <= _score_business(b, query_)
         THEN <<sorted_[1]>> \o InsertAsc(Tail(sorted_), b, query_)
         ELSE <<b>> \o sorted_

RECURSIVE SortAscFrom(_, _, _)
SortAscFrom(done, rest, query_) ==
    IF rest = <<>> THEN done
    ELSE SortAscFrom(InsertAsc(done, rest[1], query_), Tail(rest), query_)

SortedAscending(bs, query_) == SortAscFrom(<<>>, bs, query_)

\* sorted(...)[::-1]: descending, but equal scores come out in reverse order
SortedTiesReversed(bs, query_) ==
    LET asc == SortAscFrom(<<>>, bs, query_)
    IN  [k \in 1..Len(asc) |-> asc[Len(asc) + 1 - k]]

\* the candidates cut to the limit before they are sorted
SortedAfterTruncate(bs, query_) ==
    SortFrom(<<>>, Prefix(bs, Get(query_, "limit", DefaultLimit)), query_)

SortedByScore(bs, query_) == SortFrom(<<>>, bs, query_)

-----------------------------------------------------------------------------
(* _yelp_search *)

\* lines 147-155 without the else branch: the request goes out unlocated
SearchLocation_NoRaise(query_) ==
    LET loc == Get(query_, "location", EmptyDict)
    IN  IF "latitude" \in DOMAIN loc /\ "longitude" \in DOMAIN loc
        THEN [raised |-> "none",
              params |-> [latitude |-> loc.latitude,
                          longitude |-> loc.longitude]]
        ELSE IF "address" \in DOMAIN loc /\ loc.address # ""
        THEN [raised |-> "none", params |-> [location |-> loc.address]]
        ELSE [raised |-> "none", params |-> EmptyDict]

\* lines 147-155: the location parameters, or ValueError
SearchLocation(query_) ==
    LET loc == Get(query_, "location", EmptyDict)
    IN  IF "latitude" \in DOMAIN loc /\ "longitude" \in DOMAIN loc
        THEN [raised |-> "none",
              params |-> [latitude |-> loc.latitude,
                          longitude |-> loc.longitude]]
        ELSE IF "address" \in DOMAIN loc /\ loc.address # ""
        THEN [raised |-> "none", params |-> [location |-> loc.address]]
        ELSE [raised |-> "ValueError"]

\* lines 142-145 and 157-182: the other parameters of the request
SearchParams(query_) ==
    LET limit == [limit |-> Min(Get(query_, "limit", DefaultLimit), MaxPage),
                  sort_by |-> "best_match"]
        radius_m == Min(Get(query_, "distance_km", DefaultDistanceKm) * 10, 40000)
        radius == [radius |-> Max(100, radius_m)]
        cats == Get(query_, "cuisines", <<>>) \o Get(query_, "dietary", <<>>)
        categories == IF cats # <<>> THEN [categories |-> cats] ELSE EmptyDict
        open_now == IF Get(query_, "open_now", TRUE)
                    THEN [open_now |-> "true"] ELSE EmptyDict
        budget == Get(query_, "budget", <<>>)
        price == IF budget # <<>> /\ Count(budget, "$") \in 1..4
                 THEN [price |-> Count(budget, "$")] ELSE EmptyDict
        terms == Get(query_, "keywords", <<>>) \o Get(query_, "vibe", <<>>)
        term == IF terms # <<>> THEN [term |-> JoinSpace(terms)] ELSE EmptyDict
    IN  limit @@ radius @@ categories @@ open_now @@ price @@ term

\* lines 140-182: everything _yelp_search does before it touches the network
SearchRequest(query_, key) ==
    LET k == _require_yelp_key(key)
        loc == SearchLocation(query_)
    IN  IF k.raised # "none" THEN [raised |-> k.raised]
        ELSE IF loc.raised # "none" THEN [raised |-> loc.raised]
        ELSE [raised |-> "none", params |-> loc.params @@ SearchParams(query_)]

\* _yelp_search catching its failures the way _yelp_reviews does
SearchResult_Swallow(resp) ==
    IF resp.kind = "ok" THEN [raised |-> "none", value |-> resp.businesses]
    ELSE [raised |-> "none", value |-> <<>>]

\* lines 184-202: client.get, raise_for_status, r.json(), and
\* data.get("businesses", []) or []
SearchResult(resp) ==
    CASE resp.kind = "transport" -> [raised |-> "TransportError"]
      [] resp.kind = "status" -> [raised |-> "HTTPStatusError"]
      [] resp.kind = "malformed" -> [raised |-> "JSONDecodeError"]
      [] resp.kind = "ok_no_field" -> [raised |-> "none", value |-> <<>>]
      [] resp.kind = "ok" -> [raised |-> "none", value |-> resp.businesses]

(* _yelp_reviews *)

ReviewFailures == {"transport", "timeout", "status", "malformed"}
ReviewOutcomes == {"ok", "no_reviews"} \cup ReviewFailures

\* _yelp_reviews without its try/except: a failed request raises
_yelp_reviews_NoTry(outcome, key) ==
    LET k == _require_yelp_key(key)
    IN  IF k.raised # "none" THEN [raised |-> k.raised]
        ELSE IF outcome = "ok" THEN [raised |-> "none", value |-> "text"]
        ELSE IF outcome = "no_reviews" THEN [raised |-> "none", value |-> "None"]
        ELSE [raised |-> "HTTPError"]

\* lines 205-223: the key is required outside the try block; every failure
\* of the request or of reading its payload is caught and gives None
_yelp_reviews(outcome, key) ==
    LET k == _require_yelp_key(key)
    IN  IF k.raised # "none" THEN [raised |-> k.raised]
        ELSE IF outcome = "ok" THEN [raised |-> "none", value |-> "text"]
        ELSE [raised |-> "none", value |-> "None"]

\* range(len(results)): a review request for every result
EnrichCount_All(results_) == Len(results_)

\* line 259: range(min(5, len(results)))
EnrichCount(results_) == Min(SnippetCap, Len(results_))

\* lines 233-239
Normalize(query_) ==
    SetDefault(SetDefault(SetDefault(SetDefault(SetDefault(query_,
        "distance_km", DefaultDistanceKm),
        "min_rating", DefaultMinRating),
        "open_now", TRUE),
        "limit", DefaultLimit),
        "avoid", <<>>)

-----------------------------------------------------------------------------
(* The inputs the model draws *)

Dollar2 == <<"$", "$">>
Dollar4 == <<"$", "$", "$", "$">>

B1 == [id |-> 1, name |-> <<"P", "i">>,
       categories |-> << [alias |-> "italian", title |-> <<"I", "t">>] >>,
       rating |-> 45, review_count |-> 500, distance |-> 1200,
       price |-> Dollar2]

B2 == [id |-> 2, name |-> <<"B", "a">>,
       categories |-> << [alias |-> "pizza", title |-> <<"p", "I">>] >>,
       rating |-> 40, review_count |-> 9, distance |-> 5000,
       price |-> Dollar4]

B3 == [id |-> 3, name |-> <<"T", "a">>,
       categories |-> <<>>,
       rating |-> 45, review_count |-> 500, distance |-> 1200,
       price |-> Dollar2]

\* no rating and no price in the record
B4 == [id |-> 4, name |-> <<"S", "u">>,
       categories |-> << [alias |-> "japanese", title |-> <<"J", "a">>] >>,
       review_count |-> 0, distance |-> 804]

\* the budget "none"
None4 == <<"n", "o", "n", "e">>

Pool == {B1, B2, B3, B4}

\* lists of distinct pool candidates, up to MaxRaw long
ShortLists ==
    UNION {{l \in [1..n -> Pool] : \A a, b \in 1..n : a # b => l[a] # l[b]}
           : n \in 0..MaxRaw}

\* a list longer than a page: B1 and B3 in turn, with ids 1..LongRaw
LongList ==
    [k \in 1..LongRaw |->
        IF k % 2 = 1 THEN [B1 EXCEPT !.id = k] ELSE [B3 EXCEPT !.id = k]]

RawLists == ShortLists \cup {LongList}

Responses ==
    {[kind |-> "transport"], [kind |-> "status"], [kind |-> "malformed"],
     [kind |-> "ok_no_field"]}
    \cup {[kind |-> "ok", businesses |-> l] : l \in RawLists}

Opt(k, vals) == {EmptyDict} \cup {[x \in {k} |-> v] : v \in vals}

Locations ==
    {EmptyDict,
     [latitude |-> 43, longitude |-> -80],
     [latitude |-> 43],
     [address |-> "Waterloo, ON"],
     [address |-> ""]}

Queries ==
    {loc @@ lim @@ mr @@ av @@ bu @@ kw :
        loc \in Opt("location", Locations),
        lim \in Opt("limit", {2, 60}),
        mr \in Opt("min_rating", {0}),
        av \in Opt("avoid", {<< <<"P", "I">> >>, << <<>> >>}),
        bu \in Opt("budget", {Dollar2, None4}),
        kw \in Opt("keywords", {<< <<"T", "A">> >>})}

Keys == {"", "key"}

-----------------------------------------------------------------------------
(* views.py: what home computes.  A text is a sequence of chunks, so that    *)
(* strip() is computed; a JSON text is a sequence of tokens.                 *)

\* str.strip(): leading and trailing blanks removed
RECURSIVE StripLeft(_)
StripLeft(t) ==
    IF t # <<>> /\ t[1] = " " THEN StripLeft(Tail(t)) ELSE t

RECURSIVE StripRight(_)
StripRight(t) ==
    IF t # <<>> /\ t[Len(t)] = " " THEN StripRight(SubSeq(t, 1, Len(t) - 1))
    ELSE t

Strip(t) == StripRight(StripLeft(t))

\* json.dumps(chat): "[", then "{", role, content, "}" for each entry, then "]"
RECURSIVE DumpEntries(_)
DumpEntries(entries) ==
    IF entries = <<>> THEN <<>>
    ELSE <<"{", entries[1].role, entries[1].content, "}">>
         \o DumpEntries(Tail(entries))

Dumps(entries) == <<"[">> \o DumpEntries(entries) \o <<"]">>

\* json.loads of such a text: the list it encodes, another JSON value, or
\* the error of a text that is not JSON
Loads(text) ==
    IF text = <<>> THEN [is |-> "error"]
    ELSE IF text[1] = "{" THEN
        IF text[Len(text)] = "}" THEN [is |-> "dict"] ELSE [is |-> "error"]
    ELSE IF text[1] # "[" \/ text[Len(text)] # "]" \/ Len(text) < 2
            \/ (Len(text) - 2) % 4 # 0
    THEN [is |-> "error"]
    ELSE LET n == (Len(text) - 2) \div 4
         IN  IF \A k \in 1..n : text[4 * k - 2] = "{" /\ text[4 * k + 1] = "}"
             THEN [is |-> "list",
                   value |-> [k \in 1..n |->
                       [role |-> text[4 * k - 1], content |-> text[4 * k]]]]
             ELSE [is |-> "error"]

\* lines 141-148: the chat of the hidden field, [] when it is not a list or
\* cannot be parsed
LoadChat(raw_chat_json) ==
    LET v == Loads(raw_chat_json)
    IN  IF v.is = "list" THEN v.value ELSE <<>>

Sorry1 == <<"Sorry, I had trouble calling the OpenAI API.">>
Sorry2 == <<"Sorry, something went wrong when contacting GPT/Yelp.">>

UserEntry(content) == [role |-> "user", content |-> content]
AssistantEntry(content) == [role |-> "assistant", content |-> content]

\* _safe_json_extract: the parsed JSON of the model's output (whole, or from
\* the first "{" to the last "}"), else {"reply": text, "query": {}}
_safe_json_extract(content) ==
    CASE content.form = "json" -> content.value
      [] content.form = "json_in_text" -> content.value
      [] content.form = "text" ->
            [type |-> "dict",
             value |-> [reply |-> content.text, query |-> EmptyDict]]

\* _call_openai: raise_for_status and the transport raise; a payload without
\* choices raises too; else the extracted JSON
_call_openai(oa) ==
    CASE oa.kind = "status" -> [raised |-> "HTTPStatusError", code |-> oa.code]
      [] oa.kind = "transport" -> [raised |-> "TransportError"]
      [] oa.kind = "no_choices" -> [raised |-> "KeyError"]
      [] oa.kind = "ok" ->
            [raised |-> "none", value |-> _safe_json_extract(oa.content)]

\* lines 200-216: the two except branches
OnException(exc, chat_, restaurants_) ==
    IF exc.raised = "HTTPStatusError"
    THEN [chat |-> Append(chat_, AssistantEntry(Sorry1)),
          restaurants |-> restaurants_,
          error |-> IF exc.code = 401 THEN "Unauthorized (401)"
                    ELSE "OpenAI API error",
          key_status |-> "no_key"]
    ELSE [chat |-> Append(chat_, AssistantEntry(Sorry2)),
          restaurants |-> restaurants_,
          error |-> "Error talking to GPT or Yelp",
          key_status |-> "no_key"]

\* lines 176-216 with the reply appended only once find_dinner has returned
SendMessage_ReplyAfterSearch(chat0, user_msg, oa, fd) ==
    LET chat1 == Append(chat0, UserEntry(user_msg))
        called == _call_openai(oa)
    IN  IF called.raised # "none"
        THEN OnException(called, chat1, <<>>) @@ [yelp |-> "not_called"]
        ELSE IF called.value.type # "dict"
        THEN OnException([raised |-> "AttributeError"], chat1, <<>>)
             @@ [yelp |-> "not_called"]
        ELSE
        LET result == called.value.value
            reply_text == Get(result, "reply", <<>>)
            query0 == Get(result, "query", EmptyDict)
            query_ == IF query0 # EmptyDict /\ "location" \notin DOMAIN query0
                      THEN query0 @@ [location |->
                                         [address |-> "Waterloo, ON"]]
                      ELSE query0
            chat2 == Append(chat1, AssistantEntry(reply_text))
        IN  IF query_ = EmptyDict
            THEN [chat |-> chat2, restaurants |-> <<>>, error |-> "None",
                  key_status |-> "stored", yelp |-> "not_called"]
            ELSE IF fd.raised = "none"
            THEN [chat |-> chat2, restaurants |-> fd.value, error |-> "None",
                  key_status |-> "stored", yelp |-> "returned"]
            ELSE OnException(fd, chat1, <<>>) @@ [yelp |-> fd.raised]

\* lines 165-216: the "send" branch for a non-empty key and message
SendMessage(chat0, user_msg, oa, fd) ==
    LET chat1 == Append(chat0, UserEntry(user_msg))
        called == _call_openai(oa)
    IN  IF called.raised # "none"
        THEN OnException(called, chat1, <<>>) @@ [yelp |-> "not_called"]
        ELSE IF called.value.type # "dict"
        THEN \* result.get on a list: AttributeError
             OnException([raised |-> "AttributeError"], chat1, <<>>)
             @@ [yelp |-> "not_called"]
        ELSE
        LET result == called.value.value
            reply_text == Get(result, "reply", <<>>)
            query0 == Get(result, "query", EmptyDict)
            query_ == IF query0 # EmptyDict /\ "location" \notin DOMAIN query0
                      THEN query0 @@ [location |->
                                         [address |-> "Waterloo, ON"]]
                      ELSE query0
            chat2 == Append(chat1, AssistantEntry(reply_text))
        IN  IF query_ = EmptyDict
            THEN [chat |-> chat2, restaurants |-> <<>>, error |-> "None",
                  key_status |-> "stored", yelp |-> "not_called"]
            ELSE IF fd.raised = "none"
            THEN [chat |-> chat2, restaurants |-> fd.value, error |-> "None",
                  key_status |-> "stored", yelp |-> "returned"]
            ELSE OnException(fd, chat2, <<>>) @@ [yelp |-> fd.raised]

\* _verify_openai_key
_verify_openai_key(vo) ==
    CASE vo = "ok" -> [ok |-> TRUE, msg |-> "key verified successfully"]
      [] vo = "401" -> [ok |-> FALSE, msg |-> "Unauthorized (401)"]
      [] vo = "status" -> [ok |-> FALSE, msg |-> "OpenAI error"]
      [] vo = "error" -> [ok |-> FALSE, msg |-> "Error verifying API key"]

\* lines 127-216: the locals of home when it reaches line 219
HomeBody(request_, oa, vo, fd) ==
    LET start == [chat |-> <<>>, restaurants |-> <<>>, error |-> "None",
                  verify_message |-> "None", key_status |-> "no_key",
                  api_key |-> <<>>, openai |-> "not_called",
                  yelp |-> "not_called"]
    IN  IF request_.method # "POST" THEN start
        ELSE
        LET action == Get(request_.POST, "action", "send")
            api_key == Strip(Get(request_.POST, "api_key", <<>>))
            chat0 == LoadChat(Get(request_.POST, "chat_json", Dumps(<<>>)))
            user_msg == Strip(Get(request_.POST, "message", <<>>))
            loaded == [start EXCEPT !.chat = chat0, !.api_key = api_key]
        IN  IF api_key = <<>>
            THEN [loaded EXCEPT !.error = "Please paste your OpenAI API key"]
            ELSE IF action = "verify"
            THEN LET v == _verify_openai_key(vo)
                 IN  IF v.ok
                     THEN [loaded EXCEPT !.verify_message = v.msg,
                                         !.key_status = "stored",
                                         !.openai = vo]
                     ELSE [loaded EXCEPT !.error = v.msg,
                                         !.key_status = "no_key",
                                         !.openai = vo]
            ELSE IF action = "send"
            THEN IF user_msg = <<>>
                 THEN [loaded EXCEPT !.error = "Please type a message"]
                 ELSE LET sent == SendMessage(chat0, user_msg, oa, fd)
                      IN  [loaded EXCEPT !.chat = sent.chat,
                                         !.restaurants = sent.restaurants,
                                         !.error = sent.error,
                                         !.key_status = sent.key_status,
                                         !.openai = oa.kind,
                                         !.yelp = sent.yelp]
            ELSE loaded

\* lines 219-245: the context home renders
HomeContext(request_, oa, vo, fd) ==
    LET body == HomeBody(request_, oa, vo, fd)
        stored == /\ request_.method = "POST"
                  /\ body.key_status = "no_key"
                  /\ body.api_key # <<>>
                  /\ body.error = "None"
    IN  [body EXCEPT !.key_status = IF stored THEN "stored" ELSE @]
        @@ [chat_json |-> Dumps(body.chat)]

(* The requests and the outcomes the model draws *)

ApiKeys == {<<>>, <<" ">>, <<"sk">>}
Messages == {<<" ">>, <<"hi", " ">>}

\* a POST sent from the page home rendered last: it carries that page's
\* hidden chat_json field
PostsFrom(page_chat_json) ==
    {act @@ key @@ msg @@ [chat_json |-> page_chat_json] :
        act \in Opt("action", {"send", "verify", "reset"}),
        key \in Opt("api_key", ApiKeys),
        msg \in Opt("message", Messages)}

RequestsFrom(page_chat_json) ==
    {[method |-> "GET"]}
    \cup {[method |-> "POST", POST |-> f] : f \in PostsFrom(page_chat_json)}

ModelReplies ==
    {[type |-> "dict", value |-> [reply |-> <<"what cuisine?">>,
                                   query |-> EmptyDict]],
     [type |-> "dict", value |-> [reply |-> <<"searching">>,
                                   query |-> [cuisines |-> <<"asian">>]]],
     [type |-> "dict", value |-> EmptyDict],
     [type |-> "list"]}

OpenAIOutcomes ==
    {[kind |-> "status", code |-> 401], [kind |-> "status", code |-> 500],
     [kind |-> "transport"], [kind |-> "no_choices"]}
    \cup {[kind |-> "ok", content |-> [form |-> "json", value |-> v]] :
             v \in ModelReplies}
    \cup {[kind |-> "ok", content |-> [form |-> "text", text |-> <<"hello">>]]}

VerifyOutcomes == {"ok", "401", "status", "error"}

\* how find_dinner ends: with a list, or with one of the exceptions it raises
FindDinnerOutcomes ==
    {[raised |-> "none", value |-> <<>>],
     [raised |-> "none", value |-> <<[id |-> 1, lat |-> 43, lng |-> -80]>>],
     [raised |-> "RuntimeError"], [raised |-> "ValueError"],
     [raised |-> "TransportError"],
     [raised |-> "HTTPStatusError", code |-> 401],
     [raised |-> "HTTPStatusError", code |-> 500]}

HomeInit ==
    /\ request = [method |-> "none"]
    /\ history = <<>>
    /\ chat = <<>>
    /\ chat_json = Dumps(<<>>)
    /\ restaurants = <<>>
    /\ home_error = "None"
    /\ verify_message = "None"
    /\ key_status = "no_key"
    /\ openai = "not_called"
    /\ yelp = "not_called"
    /\ requests = 0

-----------------------------------------------------------------------------
(* find_dinner *)

Init ==
    /\ YELP_API_KEY \in Keys
    /\ query \in Queries
    /\ pc = "start"
    /\ q = EmptyDict
    /\ params = EmptyDict
    /\ response = "none"
    /\ raw = <<>>
    /\ businesses = <<>>
    /\ scored = <<>>
    /\ top = <<>>
    /\ results = <<>>
    /\ i = 0
    /\ error = "none"
    /\ searchCalls = 0
    /\ reviewCalls = <<>>
    /\ lastOutcome = "none"
    /\ HomeInit

\* lines 233-239
MergeDefaults ==
    /\ pc = "start"
    /\ q' = Normalize(query)
    /\ pc' = "search"
    /\ UNCHANGED <<homeVars, YELP_API_KEY, query, params, response, raw, businesses, scored,
                   top, results, i, error, searchCalls, reviewCalls,
                   lastOutcome>>

\* line 241, when _yelp_search raises before the request is made
SearchRefused ==
    /\ pc = "search"
    /\ SearchRequest(q, YELP_API_KEY).raised # "none"
    /\ error' = SearchRequest(q, YELP_API_KEY).raised
    /\ pc' = "raised"
    /\ UNCHANGED <<homeVars, YELP_API_KEY, query, q, params, response, raw, businesses,
                   scored, top, results, i, searchCalls, reviewCalls,
                   lastOutcome>>

\* line 241, when the request is made: one request, one response
SearchCall ==
    /\ pc = "search"
    /\ SearchRequest(q, YELP_API_KEY).raised = "none"
    /\ params' = SearchRequest(q, YELP_API_KEY).params
    /\ searchCalls' = searchCalls + 1
    /\ \E resp \in Responses :
          LET r == SearchResult(resp)
          IN  /\ response' = resp.kind
              /\ IF r.raised # "none"
                 THEN /\ error' = r.raised
                      /\ pc' = "raised"
                      /\ UNCHANGED <<raw, businesses>>
                 ELSE /\ raw' = r.value
                      /\ businesses' = r.value
                      /\ pc' = "filter_avoid"
                      /\ UNCHANGED error
    /\ UNCHANGED <<homeVars, YELP_API_KEY, query, q, scored, top, results, i,
                   reviewCalls, lastOutcome>>

\* line 242
FilterAvoid ==
    /\ pc = "filter_avoid"
    /\ businesses' = _filter_avoid(businesses, Get(q, "avoid", <<>>))
    /\ pc' = "filter_rating"
    /\ UNCHANGED <<homeVars, YELP_API_KEY, query, q, params, response, raw, scored, top,
                   results, i, error, searchCalls, reviewCalls, lastOutcome>>

\* lines 245-246
FilterMinRating ==
    /\ pc = "filter_rating"
    /\ businesses' = FilterRating(businesses, Get(q, "min_rating", 0))
    /\ pc' = "sort"
    /\ UNCHANGED <<homeVars, YELP_API_KEY, query, q, params, response, raw, scored, top,
                   results, i, error, searchCalls, reviewCalls, lastOutcome>>

\* lines 249-253
ScoreAndSort ==
    /\ pc = "sort"
    /\ scored' = SortedByScore(businesses, q)
    /\ pc' = "truncate"
    /\ UNCHANGED <<homeVars, YELP_API_KEY, query, q, params, response, raw, businesses, top,
                   results, i, error, searchCalls, reviewCalls, lastOutcome>>

\* lines 255-256
Truncate ==
    /\ pc = "truncate"
    /\ LET top_ == Prefix(scored, Get(q, "limit", DefaultLimit))
       IN  /\ top' = top_
           /\ results' = [k \in 1..Len(top_) |-> _to_restaurant(top_[k])]
    /\ i' = 0
    /\ pc' = "enrich"
    /\ UNCHANGED <<homeVars, YELP_API_KEY, query, q, params, response, raw, businesses,
                   scored, error, searchCalls, reviewCalls, lastOutcome>>

\* lines 259-261, one iteration: one review request for results[i]
Enrich ==
    /\ pc = "enrich"
    /\ i < EnrichCount(results)
    /\ \E outcome \in ReviewOutcomes :
          LET r == _yelp_reviews(outcome, YELP_API_KEY)
          IN  IF r.raised # "none"
              THEN /\ error' = r.raised
                   /\ pc' = "raised"
                   /\ reviewCalls' =
                          IF _require_yelp_key(YELP_API_KEY).raised = "none"
                          THEN Append(reviewCalls, results[i + 1].id)
                          ELSE reviewCalls
                   /\ lastOutcome' = outcome
                   /\ UNCHANGED <<results, i>>
              ELSE /\ results' = [results EXCEPT ![i + 1].snippet = r.value]
                   /\ i' = i + 1
                   /\ reviewCalls' = Append(reviewCalls, results[i + 1].id)
                   /\ lastOutcome' = outcome
                   /\ UNCHANGED <<error, pc>>
    /\ UNCHANGED <<homeVars, YELP_API_KEY, query, q, params, response, raw, businesses,
                   scored, top, searchCalls>>

\* line 263
Return ==
    /\ pc = "enrich"
    /\ i >= EnrichCount(results)
    /\ pc' = "done"
    /\ UNCHANGED <<homeVars, YELP_API_KEY, query, q, params, response, raw, businesses,
                   scored, top, results, i, error, searchCalls, reviewCalls,
                   lastOutcome>>

Next ==
    \/ MergeDefaults
    \/ SearchRefused
    \/ SearchCall
    \/ FilterAvoid
    \/ FilterMinRating
    \/ ScoreAndSort
    \/ Truncate
    \/ Enrich
    \/ Return

Spec == Init /\ [][Next]_vars

-----------------------------------------------------------------------------
(* home: one request after the other, each POST sent from the page the      *)
(* request before it rendered                                               *)

\* no find_dinner call of its own is in progress in this specification
InitHome ==
    /\ YELP_API_KEY = "key"
    /\ query = EmptyDict
    /\ pc = "start"
    /\ q = EmptyDict
    /\ params = EmptyDict
    /\ response = "none"
    /\ raw = <<>>
    /\ businesses = <<>>
    /\ scored = <<>>
    /\ top = <<>>
    /\ results = <<>>
    /\ i = 0
    /\ error = "none"
    /\ searchCalls = 0
    /\ reviewCalls = <<>>
    /\ lastOutcome = "none"
    /\ HomeInit

\* the request reaches the "send" branch with a key and a message (line 165)
Sends(request_) ==
    /\ request_.method = "POST"
    /\ Strip(Get(request_.POST, "api_key", <<>>)) # <<>>
    /\ Get(request_.POST, "action", "send") = "send"
    /\ Strip(Get(request_.POST, "message", <<>>)) # <<>>

\* the request reaches the "verify" branch with a key (line 154)
Verifies(request_) ==
    /\ request_.method = "POST"
    /\ Strip(Get(request_.POST, "api_key", <<>>)) # <<>>
    /\ Get(request_.POST, "action", "send") = "verify"

NotCalled == [kind |-> "not_called"]

\* lines 126-245: home answers one request; the outcome of a call is drawn
\* only when the request makes the call
Home ==
    /\ requests < MaxRequests
    /\ \E request_ \in RequestsFrom(chat_json) :
       \E oa \in IF Sends(request_) THEN OpenAIOutcomes ELSE {NotCalled} :
       \E vo \in IF Verifies(request_) THEN VerifyOutcomes ELSE {"not_called"} :
       \E fd \in IF oa.kind = "ok" THEN FindDinnerOutcomes ELSE {NotCalled} :
          LET context == HomeContext(request_, oa, vo, fd)
          IN  /\ request' = request_
              /\ history' = chat
              /\ chat' = context.chat
              /\ chat_json' = context.chat_json
              /\ restaurants' = context.restaurants
              /\ home_error' = context.error
              /\ verify_message' = context.verify_message
              /\ key_status' = context.key_status
              /\ openai' = context.openai
              /\ yelp' = context.yelp
    /\ requests' = requests + 1
    /\ UNCHANGED fdVars

NextHome == Home

SpecHome == InitHome /\ [][NextHome]_vars

-----------------------------------------------------------------------------
(* Vocabulary of the properties *)

\* the limit and the rating floor the caller asked for, with their defaults
AskedLimit == Get(query, "limit", DefaultLimit)
AskedMinRating == Get(query, "min_rating", DefaultMinRating)
AskedAvoid == Get(query, "avoid", <<>>)

\* the score of the k-th returned result: that of the candidate it was made of
ScoreOfResult(k) == _score_business(top[k], q)

\* the position of the candidate with this id in a list of candidates
PosIn(list, id) == CHOOSE k \in 1..Len(list) : list[k].id = id

\* the query names no usable location: no latitude+longitude pair, no address
NoLocation ==
    LET loc == Get(query, "location", EmptyDict)
    IN  /\ ~("latitude" \in DOMAIN loc /\ "longitude" \in DOMAIN loc)
        /\ ~("address" \in DOMAIN loc /\ loc.address # "")

AfterSearch ==
    {"filter_avoid", "filter_rating", "sort", "truncate", "enrich", "done"}

-----------------------------------------------------------------------------
(* Properties *)

\* C1: the list find_dinner returns is no longer than the query's limit
\* (12 when absent) and no longer than 50, whatever the search returned.
LimitBound ==
    pc = "done" => Len(results) <= AskedLimit /\ Len(results) <= MaxPage

\* C2: every returned result has rating >= the query's min_rating (4.0 when
\* absent); a candidate without a rating counts as rating 0.
RatingFloor ==
    pc = "done" =>
        \A k \in 1..Len(results) :
            /\ results[k].rating = Get(top[k], "rating", 0)
            /\ results[k].rating >= AskedMinRating

\* a list was returned although the rating filter removed a candidate
RatingFloorWitness ==
    /\ pc = "done"
    /\ results # <<>>
    /\ \E k \in 1..Len(raw) : Get(raw[k], "rating", 0) < AskedMinRating

\* C3: no returned result has a lower-cased avoid phrase as a substring of
\* its lower-cased name or of one of its lower-cased category names.
Exclusion ==
    pc = "done" =>
        \A k \in 1..Len(results) : \A a \in 1..Len(AskedAvoid) :
            /\ ~Contains(Lower(AskedAvoid[a]), Lower(results[k].name))
            /\ \A c \in 1..Len(results[k].categories) :
                  ~Contains(Lower(AskedAvoid[a]),
                            Lower(results[k].categories[c]))

\* a list was returned after the avoid filter removed a candidate by its name
\* and another by its category
ExclusionWitness ==
    /\ pc = "done"
    /\ results # <<>>
    /\ \E a \in 1..Len(AskedAvoid) :
          /\ AskedAvoid[a] # <<>>
          /\ \E k \in 1..Len(raw) :
                Contains(Lower(AskedAvoid[a]), Lower(raw[k].name))
          /\ \E k \in 1..Len(raw) :
                \E c \in 1..Len(raw[k].categories) :
                    Contains(Lower(AskedAvoid[a]),
                             Lower(raw[k].categories[c].title))

\* C4: in the returned list the score of each result is >= that of the next.
MonotonicOrdering ==
    pc = "done" =>
        \A score \in {[k \in 1..Len(results) |-> ScoreOfResult(k)]} :
            /\ \A k \in 1..Len(results) : results[k].id = top[k].id
            /\ \A k \in 1..(Len(results) - 1) : score[k] >= score[k + 1]

\* a list was returned whose candidates the search had returned in ascending
\* order of score
MonotonicOrderingWitness ==
    /\ pc = "done"
    /\ Len(results) >= 2
    /\ ScoreOfResult(1) > ScoreOfResult(2)
    /\ PosIn(businesses, results[1].id) > PosIn(businesses, results[2].id)

\* C5: two returned results of equal score are in the relative order they
\* had in the filtered candidate list.
StableRanking ==
    pc = "done" =>
        \A score \in {[k \in 1..Len(results) |-> ScoreOfResult(k)]} :
        \A pos \in {[k \in 1..Len(results) |->
                        PosIn(businesses, results[k].id)]} :
            \A a \in 1..Len(results) : \A b \in (a + 1)..Len(results) :
                score[a] = score[b] => pos[a] < pos[b]

\* a list was returned with two results of equal score, ranked above a result
\* the search had returned before them
StableRankingWitness ==
    /\ pc = "done"
    /\ Len(results) >= 3
    /\ ScoreOfResult(1) = ScoreOfResult(2)
    /\ ScoreOfResult(2) > ScoreOfResult(3)
    /\ PosIn(businesses, results[3].id) < PosIn(businesses, results[1].id)

\* C6: only the first 5 results can carry a snippet, and review requests are
\* made for the first 5 results only, one each, in ranked order.
SnippetCapHolds ==
    /\ \A k \in 1..Len(results) :
          results[k].snippet # "None" => k <= SnippetCap
    /\ Cardinality({k \in 1..Len(results) : results[k].snippet # "None"})
           <= SnippetCap
    /\ Len(reviewCalls) <= SnippetCap
    /\ \A j \in 1..Len(reviewCalls) : reviewCalls[j] = results[j].id

\* more than 5 results were returned and each of the first 5 has a snippet
SnippetCapWitness ==
    /\ pc = "done"
    /\ Len(results) > SnippetCap
    /\ \A k \in 1..SnippetCap : results[k].snippet # "None"

\* C7: a failed review request never aborts find_dinner: no exception once
\* the search has returned, the results stay the ranked candidates in their
\* order, and the result whose request failed has no snippet.
EnrichmentNeverAborts ==
    /\ (reviewCalls # <<>> \/ pc \in AfterSearch) =>
          (pc # "raised" /\ error = "none")
    /\ pc \in {"enrich", "done"} =>
          /\ Len(results) = Len(top)
          /\ \A k \in 1..Len(results) :
                [results[k] EXCEPT !.snippet = "None"] = _to_restaurant(top[k])
    /\ lastOutcome \in ReviewFailures => results[i].snippet = "None"

\* a list was returned in which one review request succeeded and the last failed
EnrichmentNeverAbortsWitness ==
    /\ pc = "done"
    /\ lastOutcome \in ReviewFailures
    /\ Len(results) >= 2
    /\ results[1].snippet # "None"

\* C8: when the search request fails find_dinner ends with an exception and
\* returns no list; the request was made once and no review request follows.
SearchFailureAborts ==
    /\ searchCalls <= 1
    /\ response \in {"transport", "status"} =>
          /\ pc = "raised"
          /\ error \in {"TransportError", "HTTPStatusError"}
          /\ searchCalls = 1
          /\ reviewCalls = <<>>
          /\ results = <<>>

\* the search request came back with a non-2xx status
SearchFailureAbortsWitness ==
    /\ response = "status"
    /\ pc = "raised"
    /\ error = "HTTPStatusError"

\* C9: without an API key find_dinner ends with the RuntimeError of
\* _require_yelp_key (MissingCredential) for every query, and no request is
\* put on the network.
MissingCredentialFailsFast ==
    YELP_API_KEY = "" =>
        /\ pc \in {"start", "search", "raised"}
        /\ pc = "raised" => error = "RuntimeError"
        /\ pc = "search" => (ENABLED SearchRefused /\ ~ENABLED SearchCall)
        /\ searchCalls = 0
        /\ reviewCalls = <<>>

\* find_dinner failed for want of a key on a query with a usable location
MissingCredentialFailsFastWitness ==
    /\ YELP_API_KEY = ""
    /\ ~NoLocation
    /\ pc = "raised"
    /\ error = "RuntimeError"

\* C10 as stated: a query without a location makes find_dinner fail with
\* ValueError (InvalidQuery) before any request is put on the network.
NoLocationIsInvalidQuery ==
    NoLocation =>
        /\ pc \in {"start", "search", "raised"}
        /\ pc = "raised" => error = "ValueError"
        /\ searchCalls = 0

\* C10, amended: a query without a location makes find_dinner fail before any
\* request is put on the network, with ValueError (InvalidQuery) when an API
\* key is configured and with RuntimeError (MissingCredential) when none is.
NoLocationFailsFast ==
    NoLocation =>
        /\ pc \in {"start", "search", "raised"}
        /\ pc = "raised" =>
              error = IF YELP_API_KEY = "" THEN "RuntimeError" ELSE "ValueError"
        /\ pc = "search" => (ENABLED SearchRefused /\ ~ENABLED SearchCall)
        /\ searchCalls = 0
        /\ reviewCalls = <<>>

\* find_dinner failed with ValueError on a query without a location
NoLocationFailsFastWitness ==
    /\ NoLocation
    /\ YELP_API_KEY # ""
    /\ pc = "raised"
    /\ error = "ValueError"

\* C11: the returned list is the first `limit` elements of the descending
\* sort of all the candidates that survived both filters: no survivor that
\* was left out has a strictly higher score than a returned result.
TruncatesAfterSorting ==
    pc = "done" =>
        \A score \in {[k \in 1..Len(businesses) |->
                          _score_business(businesses[k], q)]} :
        \A kept \in {{results[k].id : k \in 1..Len(results)}} :
            /\ Len(results) = Min(AskedLimit, Len(businesses))
            /\ Len(scored) = Len(businesses)
            /\ \A k \in 1..Len(businesses) :
                  \E j \in 1..Len(scored) : scored[j] = businesses[k]
            /\ \A k \in 1..Len(results) : results[k].id = scored[k].id
            /\ \A k \in 1..Len(businesses) :
                  businesses[k].id \notin kept =>
                      \A j \in 1..Len(businesses) :
                          businesses[j].id \in kept => score[k] <= score[j]

\* a list was returned that leaves out a survivor the search had returned
\* before a returned result of strictly higher score
TruncatesAfterSortingWitness ==
    /\ pc = "done"
    /\ Len(results) < Len(businesses)
    /\ \E k \in 1..Len(businesses) :
          /\ \A r \in 1..Len(results) : results[r].id # businesses[k].id
          /\ k <= Len(results)
          /\ \E r \in 1..Len(results) :
                /\ PosIn(businesses, results[r].id) > Len(results)
                /\ ScoreOfResult(r) > _score_business(businesses[k], q)

\* C12: the price alignment term of a scored candidate is
\* max(0, 1.5 - 0.75 * |dollar-count(price) - dollar-count(budget)|) when the
\* query has a budget tier and the candidate a price, and exactly 0 when the
\* budget is absent or is the value none, or the candidate has no price.
PriceAlignmentTerm ==
    pc \in {"truncate", "enrich", "done"} =>
        \A k \in 1..Len(businesses) :
            LET b == businesses[k]
                noBudget == "budget" \notin DOMAIN query \/ query.budget = None4
                noPrice == "price" \notin DOMAIN b
            IN  PriceAlign(b, q) =
                    IF noBudget \/ noPrice THEN 0
                    ELSE Max(0, 15000 - 7500 * Abs(Count(b.price, "$")
                                                   - Count(query.budget, "$")))

\* C13: the avoid filter never matches on an empty phrase: with an empty avoid
\* list, or one that holds only empty strings, it returns the candidate list
\* it was given.
EmptyPhrasesNeverMatch ==
    pc = "filter_rating" =>
        /\ AskedAvoid = <<>> => businesses = raw
        /\ (\A a \in 1..Len(AskedAvoid) : AskedAvoid[a] = <<>>) =>
              businesses = raw

\* the message of the latest request, as home reads it
SentMessage == Strip(Get(request.POST, "message", <<>>))

\* find_dinner was called by the latest request and raised
YelpRaised == yelp \notin {"not_called", "returned"}

\* C14 as stated: a "send" request with a non-empty key and message appends
\* exactly one user entry and then exactly one assistant entry to the chat of
\* the page it was sent from, whatever the calls come to; every other request
\* leaves that chat as it was.
ChatGrowsByOneExchange ==
    request.method # "none" =>
        IF Sends(request)
        THEN /\ Len(chat) = Len(history) + 2
             /\ SubSeq(chat, 1, Len(history)) = history
             /\ chat[Len(history) + 1] = UserEntry(SentMessage)
             /\ chat[Len(history) + 2].role = "assistant"
        ELSE chat = history

\* C14, amended: a "send" request with a non-empty key and message appends
\* one user entry and then one assistant entry, and a second assistant entry
\* (the apology) when the reply was appended and find_dinner then raised;
\* every other POST leaves the chat as it was; a GET renders an empty chat.
ChatGrowsByOneExchangeOrApology ==
    request.method # "none" =>
        IF Sends(request)
        THEN /\ Len(chat) = Len(history) + (IF YelpRaised THEN 3 ELSE 2)
             /\ SubSeq(chat, 1, Len(history)) = history
             /\ chat[Len(history) + 1] = UserEntry(SentMessage)
             /\ chat[Len(history) + 2].role = "assistant"
             /\ YelpRaised =>
                   /\ chat[Len(history) + 3].role = "assistant"
                   /\ chat[Len(history) + 3].content \in {Sorry1, Sorry2}
             /\ chat_json = Dumps(chat)
        ELSE IF request.method = "POST"
        THEN chat = history /\ chat_json = Dumps(chat)
        ELSE chat = <<>> /\ chat_json = Dumps(<<>>)

\* a second "send", sent from a page that shows the first exchange, got its
\* reply and then find_dinner raised
ChatGrowsByOneExchangeOrApologyWitness ==
    /\ request.method = "POST"
    /\ Sends(request)
    /\ history # <<>>
    /\ YelpRaised
    /\ Len(chat) = Len(history) + 3

====
